---- MODULE Spec2Model ----
(***************************************************************************)
(* A model of the renamer engine of FLCloud_Rename_GUI.py: the key         *)
(* normalizer, the instrument-phrase classifier, the composition-folder    *)
(* parser and the batch transformer process_folder.                        *)
(*                                                                         *)
(* A Python str is modelled as a sequence of one-character strings, so     *)
(* that lower(), title(), strip(), split() and the regular expressions of  *)
(* the source are computed character by character.                         *)
(***************************************************************************)
EXTENDS Integers, Sequences, FiniteSets, TLC

\* ------------------------------------------------------------------------
\* Characters and the str methods the source uses
\* ------------------------------------------------------------------------

LOWERS ==
    <<"a","b","c","d","e","f","g","h","i","j","k","l","m",
      "n","o","p","q","r","s","t","u","v","w","x","y","z">>

UPPERS ==
    <<"A","B","C","D","E","F","G","H","I","J","K","L","M",
      "N","O","P","Q","R","S","T","U","V","W","X","Y","Z">>

DIGITS == {"0","1","2","3","4","5","6","7","8","9"}

\* the code points of the characters the model uses, in increasing order
ASCII ==
    <<" ","#","&","-",".","0","1","2","3","4","5","6","7","8","9">>
    \o UPPERS \o <<"[","]","_">> \o LOWERS

\* \s of the regular expressions, and the default of strip() and split()
WS == {" "}

IndexOf(seq, c) ==
    IF \E i \in DOMAIN seq : seq[i] = c
    THEN CHOOSE i \in DOMAIN seq : seq[i] = c
    ELSE 0

Ord(c) == IndexOf(ASCII, c)

IsUpper(c) == IndexOf(UPPERS, c) > 0
IsLower(c) == IndexOf(LOWERS, c) > 0
IsAlpha(c) == IsUpper(c) \/ IsLower(c)
IsDigit(c) == c \in DIGITS
\* \w of the regular expressions
IsWord(c) == IsAlpha(c) \/ IsDigit(c) \/ c = "_"

LowerChar(c) == IF IsUpper(c) THEN LOWERS[IndexOf(UPPERS, c)] ELSE c
UpperChar(c) == IF IsLower(c) THEN UPPERS[IndexOf(LOWERS, c)] ELSE c

\* str.lower(), str.upper()
Lower(s) == [i \in DOMAIN s |-> LowerChar(s[i])]
Upper(s) == [i \in DOMAIN s |-> UpperChar(s[i])]

\* str.title(): a letter that follows a letter is lower-cased, any other
\* letter is upper-cased, every other character is kept
Title(s) ==
    [i \in DOMAIN s |->
        IF IsAlpha(s[i])
        THEN IF i > 1 /\ IsAlpha(s[i-1]) THEN LowerChar(s[i]) ELSE UpperChar(s[i])
        ELSE s[i]]

Drop(s, n) == SubSeq(s, n + 1, Len(s))
Take(s, n) == SubSeq(s, 1, n)

\* the number of leading / trailing whitespace characters of s
LeadWS(s) ==
    IF \E i \in DOMAIN s : s[i] \notin WS
    THEN (CHOOSE i \in DOMAIN s : s[i] \notin WS /\ \A j \in 1..(i-1) : s[j] \in WS) - 1
    ELSE Len(s)
TrailWS(s) ==
    IF \E i \in DOMAIN s : s[i] \notin WS
    THEN Len(s) - (CHOOSE i \in DOMAIN s : s[i] \notin WS /\ \A j \in (i+1)..Len(s) : s[j] \in WS)
    ELSE Len(s)

\* str.lstrip(), str.rstrip(), str.strip()
LStrip(s) == Drop(s, LeadWS(s))
RStrip(s) == Take(s, Len(s) - TrailWS(s))
Strip(s) == RStrip(LStrip(s))

\* str.startswith at an offset: t occurs in s at position i (1-based)
MatchAt(s, i, t) ==
    /\ i >= 1
    /\ i + Len(t) - 1 <= Len(s)
    /\ \A k \in 1..Len(t) : s[i + k - 1] = t[k]

RECURSIVE Join(_, _)
\* sep.join(parts)
Join(parts, sep) ==
    IF Len(parts) = 0 THEN <<>>
    ELSE IF Len(parts) = 1 THEN parts[1]
    ELSE parts[1] \o sep \o Join(Tail(parts), sep)

RECURSIVE SplitWS(_)
\* str.split() with no argument: the maximal runs of non-whitespace
SplitWS(s) ==
    LET t == LStrip(s) IN
    IF Len(t) = 0 THEN <<>>
    ELSE LET n == IF \E i \in DOMAIN t : t[i] \in WS
                  THEN (CHOOSE i \in DOMAIN t : t[i] \in WS /\ \A j \in 1..(i-1) : t[j] \notin WS) - 1
                  ELSE Len(t)
         IN <<Take(t, n)>> \o SplitWS(Drop(t, n))

\* re.sub(r"\s+", " ", s).strip()
CollapseWS(s) == Join(SplitWS(s), <<" ">>)

RECURSIVE Replace(_, _, _)
\* str.replace(old, new), old a non-empty string
Replace(s, old, new) ==
    IF Len(s) = 0 THEN <<>>
    ELSE IF MatchAt(s, 1, old) THEN new \o Replace(Drop(s, Len(old)), old, new)
    ELSE <<s[1]>> \o Replace(Tail(s), old, new)

\* ------------------------------------------------------------------------
\* Key normalization
\* ------------------------------------------------------------------------

\* the quality alternatives of the key grammar, line 212
KEY_QUALS ==
    { <<"m","a","j">>, <<"M","A","J">>, <<"M","a","j">>,
      <<"m","i","n">>, <<"M","I","N">>, <<"m">> }

KEY_ROOTS == {"A","B","C","D","E","F","G","a","b","c","d","e","f","g"}

KEY_ACCIDENTALS == {"#","b","B"}

\* re.match of the key grammar on s: [ok, root, accidental, qual], the
\* groups being <<>> where Python gives None or ""
KeyMatch(s) ==
    LET none == [ok |-> FALSE, root |-> <<>>, accidental |-> <<>>, qual |-> <<>>]
    IN
    IF Len(s) = 0 \/ s[1] \notin KEY_ROOTS THEN none
    ELSE
        LET hasAcc == Len(s) >= 2 /\ s[2] \in KEY_ACCIDENTALS
            acc == IF hasAcc THEN <<s[2]>> ELSE <<>>
            rest == Drop(s, 1 + Len(acc))
            q == LStrip(rest)
        IN
        IF Len(rest) = 0
        THEN [ok |-> TRUE, root |-> <<s[1]>>, accidental |-> acc, qual |-> <<>>]
        ELSE IF q \in KEY_QUALS
        THEN [ok |-> TRUE, root |-> <<s[1]>>, accidental |-> acc, qual |-> q]
        ELSE none

\* FLAT_TO_SHARP.get(flat_name): <<>> for None
FLAT_TO_SHARP(flat_name) ==
    CASE flat_name = <<"A","b">> -> <<"G","#">>
      [] flat_name = <<"B","b">> -> <<"A","#">>
      [] flat_name = <<"D","b">> -> <<"C","#">>
      [] flat_name = <<"E","b">> -> <<"D","#">>
      [] flat_name = <<"G","b">> -> <<"F","#">>
      [] OTHER -> <<>>

\* lines 220-228: the quality token decides minor
KeyIsMinor(qual_token) ==
    IF Len(qual_token) > 0
    THEN Lower(qual_token) \in { <<"m">>, <<"m","i","n">> }
    ELSE FALSE

\* a plausible slip: the two suffixes swapped
KeySuffix_swapped(is_minor) ==
    IF is_minor THEN <<"m","a","j">> ELSE <<"m","i","n">>

\* line 240
KeySuffix(is_minor) ==
    IF is_minor THEN <<"m","i","n">> ELSE <<"m","a","j">>

\* a plausible slip: the flat is kept in the output instead of being mapped
KeyRootStr_keepflat(root, accidental) ==
    root \o accidental

\* lines 230-239: root and accidental of the output
KeyRootStr(root, accidental) ==
    LET isFlat == Lower(accidental) = <<"b">>
        sharp_name == FLAT_TO_SHARP(root \o <<"b">>)
        root2 == IF isFlat /\ Len(sharp_name) > 0 THEN <<sharp_name[1]>> ELSE root
        acc2 == IF isFlat
                THEN (IF Len(sharp_name) > 0 THEN <<"#">> ELSE <<>>)
                ELSE accidental
    IN root2 \o (IF acc2 = <<"#">> THEN acc2 ELSE <<>>)

normalize_key(key_raw) ==
    IF Len(key_raw) = 0 THEN key_raw
    ELSE
        LET s == Strip(key_raw)
            m == KeyMatch(s)
        IN
        IF ~m.ok THEN s
        ELSE KeyRootStr(Upper(m.root), m.accidental) \o KeySuffix(KeyIsMinor(m.qual))

\* ------------------------------------------------------------------------
\* Instrument vocabulary: the words of CORE_SET and INSTRUMENT_MAP
\* ------------------------------------------------------------------------

wBass == <<"B","a","s","s">>
wElectric == <<"E","l","e","c","t","r","i","c">>
wUpright == <<"U","p","r","i","g","h","t">>
wSynth == <<"S","y","n","t","h">>
wRhodes == <<"R","h","o","d","e","s">>
wPiano == <<"P","i","a","n","o">>
wEP == <<"E","P">>
wGuitar == <<"G","u","i","t","a","r">>
wAcoustic == <<"A","c","o","u","s","t","i","c">>
wNylon == <<"N","y","l","o","n">>
wLead == <<"L","e","a","d">>
wPad == <<"P","a","d">>
wFull == <<"F","u","l","l">>
wMulti == <<"M","u","l","t","i">>
wElectric_Piano == <<"E","l","e","c","t","r","i","c","_","P","i","a","n","o">>

SP == <<" ">>

\* two words separated by one space
Sp(a, b) == a \o SP \o b

CORE_SET ==
    { wBass, Sp(wElectric, wBass), Sp(wSynth, wBass), Sp(wUpright, wBass),
      wGuitar, Sp(wAcoustic, wGuitar), Sp(wElectric, wGuitar),
      wElectric_Piano,
      wLead, <<"S","t","r","i","n","g","s">>, <<"C","h","o","i","r">>, <<"C","l","a","v","i">>,
      wPiano, <<"O","r","g","a","n">>, wPad, <<"P","l","u","c","k">>, <<"A","r","p">>, <<"B","r","a","s","s">>, wSynth, <<"V","i","b","r","a","p","h","o","n","e">>,
      wFull, <<"F","l","u","t","e">>,
      <<"B","e","l","l","s">>, <<"M","a","l","l","e","t","s">>, <<"K","a","l","i","m","b","a">>, <<"V","o","c","a","l","s">>,
      <<"G","l","o","c","k","e","n","s","p","i","e","l">>, <<"H","o","r","n","s">>, <<"K","e","y","s">> }

\* the items of INSTRUMENT_MAP in insertion order, as <<key, value>>
INSTRUMENT_MAP ==
    << <<<<"B","a","s","s","l","i","n","e">>, wBass>>, <<Sp(wBass, <<"L","i","n","e">>), wBass>>, <<Sp(<<"S","u","b">>, wBass), wBass>>,
       <<wBass, wBass>>,
       <<Sp(wElectric, wBass), wBass>>, <<Sp(wUpright, wBass), wBass>>,
       <<Sp(wSynth, wBass), wBass>>,
       <<wRhodes, wElectric_Piano>>, <<Sp(wRhodes, wPiano), wElectric_Piano>>,
       <<Sp(<<"E",".">>, wPiano), wElectric_Piano>>, <<wEP, wElectric_Piano>>,
       <<Sp(wElectric, wPiano), wElectric_Piano>>,
       <<wGuitar, wGuitar>>,
       <<Sp(wElectric, wGuitar), wGuitar>>,
       <<Sp(wAcoustic, wGuitar), wGuitar>>,
       <<wLead, wLead>>,
       <<<<"S","t","r","i","n","g","s">>, <<"S","t","r","i","n","g","s">>>>, <<<<"S","t","r","i","n","g">>, <<"S","t","r","i","n","g","s">>>>,
       <<<<"C","h","o","i","r">>, <<"C","h","o","i","r">>>>,
       <<<<"C","l","a","v","i">>, <<"C","l","a","v","i">>>>,
       <<wPiano, wPiano>>, <<Sp(<<"G","r","a","n","d">>, wPiano), wPiano>>,
       <<<<"O","r","g","a","n">>, <<"O","r","g","a","n">>>>,
       <<wPad, wPad>>,
       <<<<"P","l","u","c","k">>, <<"P","l","u","c","k">>>>,
       <<<<"A","r","p">>, <<"A","r","p">>>>,
       <<<<"B","r","a","s","s">>, <<"B","r","a","s","s">>>>,
       <<wSynth, wSynth>>,
       <<<<"V","i","b","r","a","p","h","o","n","e">>, <<"V","i","b","r","a","p","h","o","n","e">>>>, <<<<"V","i","b","e","s">>, <<"V","i","b","r","a","p","h","o","n","e">>>>,
       <<<<"F","l","u","t","e">>, <<"F","l","u","t","e">>>>,
       <<<<"B","e","l","l">>, <<"B","e","l","l","s">>>>, <<<<"B","e","l","l","s">>, <<"B","e","l","l","s">>>>,
       <<<<"M","a","l","l","e","t","s">>, <<"M","a","l","l","e","t","s">>>>,
       <<<<"K","a","l","i","m","b","a">>, <<"K","a","l","i","m","b","a">>>>,
       <<<<"V","o","c","a","l","s">>, <<"V","o","c","a","l","s">>>>, <<<<"V","o","x">>, <<"V","o","c","a","l","s">>>>, <<<<"V","o","c","a","l">>, <<"V","o","c","a","l","s">>>>,
       <<<<"K","e","y","s">>, <<"K","e","y","s">>>>,
       <<<<"H","o","r","n">>, <<"H","o","r","n","s">>>>, <<<<"H","o","r","n","s">>, <<"H","o","r","n","s">>>>,
       <<<<"G","l","o","c","k">>, <<"G","l","o","c","k","e","n","s","p","i","e","l">>>>, <<<<"G","l","o","c","k","e","n","s","p","i","e","l">>, <<"G","l","o","c","k","e","n","s","p","i","e","l">>>>,
       <<wFull, wFull>> >>

\* k.lower() of every key of INSTRUMENT_MAP
INSTRUMENT_KEYS_LOWER ==
    [i \in DOMAIN INSTRUMENT_MAP |-> Lower(INSTRUMENT_MAP[i][1])]

\* CORE_PRIORITY.get(c, 2): lower number = higher priority
CORE_PRIORITY(c) ==
    IF c = wBass THEN 0
    ELSE IF c = wGuitar THEN 1
    ELSE 2

\* ------------------------------------------------------------------------
\* Instrument-phrase classification
\* ------------------------------------------------------------------------

\* the first item of INSTRUMENT_MAP whose key equals token, ignoring case,
\* else token.title()
canon_core(token) ==
    LET low == Lower(token)
        hits == {i \in DOMAIN INSTRUMENT_MAP : INSTRUMENT_KEYS_LOWER[i] = low}
    IN
    IF hits # {}
    THEN INSTRUMENT_MAP[CHOOSE i \in hits : \A j \in hits : i <= j][2]
    ELSE Title(token)

_is_bass_core(core) ==
    core \in {wBass, Sp(wElectric, wBass), Sp(wSynth, wBass), Sp(wUpright, wBass)}

\* remove_words of _specialize_bass_guitar_core
remove_words(words, to_remove) ==
    LET rem == {Lower(to_remove[i]) : i \in DOMAIN to_remove}
        kept == SelectSeq(words, LAMBDA w : Lower(w) \notin rem)
    IN IF Len(kept) > 0 THEN Title(Join(kept, SP)) ELSE <<>>

\* a plausible slip: the upright test comes before the synth test
SpecializeBass_uprightfirst(low, words, adj) ==
    IF \E i \in DOMAIN low : low[i] = Lower(wUpright)
    THEN [core |-> Sp(wUpright, wBass), adj |-> remove_words(words, <<wUpright>>)]
    ELSE IF \E i \in DOMAIN low : low[i] = Lower(wSynth)
    THEN [core |-> Sp(wSynth, wBass), adj |-> remove_words(words, <<wSynth>>)]
    ELSE IF \E i \in DOMAIN low : low[i] \in {Lower(wElectric), Lower(wGuitar)}
    THEN [core |-> Sp(wElectric, wBass), adj |-> remove_words(words, <<wElectric, wGuitar>>)]
    ELSE [core |-> wBass, adj |-> adj]

\* lines 116-123
SpecializeBass(low, words, adj) ==
    IF \E i \in DOMAIN low : low[i] = Lower(wSynth)
    THEN [core |-> Sp(wSynth, wBass), adj |-> remove_words(words, <<wSynth>>)]
    ELSE IF \E i \in DOMAIN low : low[i] = Lower(wUpright)
    THEN [core |-> Sp(wUpright, wBass), adj |-> remove_words(words, <<wUpright>>)]
    ELSE IF \E i \in DOMAIN low : low[i] \in {Lower(wElectric), Lower(wGuitar)}
    THEN [core |-> Sp(wElectric, wBass), adj |-> remove_words(words, <<wElectric, wGuitar>>)]
    ELSE [core |-> wBass, adj |-> adj]

\* lines 125-130
SpecializeGuitar(low, words, adj) ==
    IF \E i \in DOMAIN low : low[i] \in {Lower(wAcoustic), Lower(wNylon)}
    THEN [core |-> Sp(wAcoustic, wGuitar), adj |-> remove_words(words, <<wAcoustic, wNylon>>)]
    ELSE IF \E i \in DOMAIN low : low[i] = Lower(wElectric)
    THEN [core |-> Sp(wElectric, wGuitar), adj |-> remove_words(words, <<wElectric>>)]
    ELSE [core |-> wGuitar, adj |-> adj]

_specialize_bass_guitar_core(core, adj) ==
    IF Len(adj) = 0 THEN [core |-> core, adj |-> adj]
    ELSE
        LET words == SplitWS(adj)
            low == [i \in DOMAIN words |-> Lower(words[i])]
        IN
        IF core = wBass THEN SpecializeBass(low, words, adj)
        ELSE IF core = wGuitar THEN SpecializeGuitar(low, words, adj)
        ELSE [core |-> core, adj |-> adj]

\* \b at position p of s: between s[p-1] and s[p], one a word character
\* and the other not (or missing)
WordBoundary(s, p) ==
    (p > 1 /\ p - 1 <= Len(s) /\ IsWord(s[p-1])) # (p >= 1 /\ p <= Len(s) /\ IsWord(s[p]))

\* the position after the maximal run of whitespace of s that starts at j
SkipWS(s, j) ==
    IF \E k \in j..Len(s) : s[k] \notin WS
    THEN CHOOSE k \in j..Len(s) : s[k] \notin WS /\ \A n \in j..(k-1) : s[n] \in WS
    ELSE IF j > Len(s) THEN j ELSE Len(s) + 1

\* the end positions (exclusive) of the matches at i of the four
\* alternatives rhodes | e\.?\s*piano | ^ep$ | electric\s+piano, on the
\* lower-cased string ls (the pattern is case-insensitive)
EPAltEnds(ls, i) ==
    LET rhodes == Lower(wRhodes)
        piano == Lower(wPiano)
        electric == Lower(wElectric)
        afterE == IF MatchAt(ls, i + 1, <<".">>) THEN i + 2 ELSE i + 1
        pE == SkipWS(ls, afterE)
        afterEl == i + Len(electric)
        pEl == SkipWS(ls, afterEl)
    IN
    (IF MatchAt(ls, i, rhodes) THEN {i + Len(rhodes)} ELSE {})
    \cup (IF MatchAt(ls, i, <<"e">>) /\ MatchAt(ls, pE, piano)
          THEN {pE + Len(piano)} ELSE {})
    \cup (IF i = 1 /\ ls = Lower(wEP) THEN {Len(ls) + 1} ELSE {})
    \cup (IF MatchAt(ls, i, electric) /\ pEl > afterEl /\ MatchAt(ls, pEl, piano)
          THEN {pEl + Len(piano)} ELSE {})

\* re.search of the Electric_Piano pattern, line 151: m.start() as a
\* 1-based position, 0 when there is no match
EPSearch(s) ==
    LET ls == Lower(s)
        starts == {i \in DOMAIN s :
                      /\ WordBoundary(s, i)
                      /\ \E e \in EPAltEnds(ls, i) : WordBoundary(s, e)}
    IN IF starts = {} THEN 0 ELSE CHOOSE i \in starts : \A j \in starts : i <= j

\* (i, c) for i, c in enumerate(canon_tokens) if c in CORE_SET, as the
\* increasing sequence of the positions i (1-based)
CorePositions(tokens) ==
    SelectSeq([i \in DOMAIN tokens |-> i], LAMBDA i : canon_core(tokens[i]) \in CORE_SET)

RECURSIVE PickLoop(_, _, _, _)
\* the loop of lines 172-181 over core_positions from its k-th element on,
\* with best_priority = best and chosen_idx = idx (0 for None)
PickLoop(tokens, positions, best, idx) ==
    IF Len(positions) = 0 THEN idx
    ELSE
        LET i == Head(positions)
            pr == CORE_PRIORITY(canon_core(tokens[i]))
        IN
        IF idx = 0 \/ pr < best THEN PickLoop(tokens, Tail(positions), pr, i)
        ELSE IF pr = best /\ i > idx THEN PickLoop(tokens, Tail(positions), best, i)
        ELSE PickLoop(tokens, Tail(positions), best, idx)

\* a plausible slip: the leftmost core wins whatever its priority
ChosenIdx_leftmost(tokens) ==
    LET positions == CorePositions(tokens)
    IN IF Len(positions) = 0 THEN 0 ELSE Head(positions)

\* chosen_idx (1-based), 0 when no token is a core
ChosenIdx(tokens) == PickLoop(tokens, CorePositions(tokens), 0, 0)

\* lines 184-185: the adjective before specialization
AdjOf(tokens, chosen_idx) ==
    LET adj_tokens == Take(tokens, chosen_idx - 1) \o Drop(tokens, chosen_idx)
    IN IF Len(adj_tokens) > 0 THEN Title(Join(adj_tokens, SP)) ELSE <<>>

normalize_instrument_phrase(phrase) ==
    LET s == CollapseWS(phrase)
        m == EPSearch(s)
        tokens == SplitWS(s)
        chosen_idx == ChosenIdx(tokens)
    IN
    IF m > 0 THEN [core |-> wElectric_Piano, adj |-> Title(Strip(Take(s, m - 1)))]
    ELSE IF Len(tokens) = 0 THEN [core |-> wFull, adj |-> <<>>]
    ELSE IF Len(tokens) = 1 THEN [core |-> canon_core(tokens[1]), adj |-> <<>>]
    ELSE IF chosen_idx > 0
    THEN _specialize_bass_guitar_core(canon_core(tokens[chosen_idx]),
                                      AdjOf(tokens, chosen_idx))
    ELSE [core |-> canon_core(s), adj |-> <<>>]

\* ------------------------------------------------------------------------
\* Folder and file names
\* ------------------------------------------------------------------------

\* Python's None where the source tells it from the empty string
None == <<"<None>">>

\* the position of the first "-" of s, 0 when there is none
FirstDash(s) ==
    IF \E i \in DOMAIN s : s[i] = "-"
    THEN CHOOSE i \in DOMAIN s : s[i] = "-" /\ \A j \in 1..(i-1) : s[j] # "-"
    ELSE 0

\* DASH_SPLIT.split(s, maxsplit=1): the separator \s*-\s* takes the
\* whitespace on both sides of the first dash
DashSplit1(s) ==
    LET d == FirstDash(s) IN
    IF d = 0 THEN <<s>>
    ELSE <<RStrip(Take(s, d - 1)), LStrip(Drop(s, d))>>

RECURSIVE DashSplit(_)
\* DASH_SPLIT.split(s)
DashSplit(s) ==
    LET d == FirstDash(s) IN
    IF d = 0 THEN <<s>>
    ELSE <<RStrip(Take(s, d - 1))>> \o DashSplit(LStrip(Drop(s, d)))

\* the length of the maximal run of digits of s that starts at i
DigitRun(s, i) ==
    IF \E k \in i..Len(s) : ~IsDigit(s[k])
    THEN (CHOOSE k \in i..Len(s) : ~IsDigit(s[k]) /\ \A n \in i..(k-1) : IsDigit(s[n])) - i
    ELSE IF i > Len(s) THEN 0 ELSE Len(s) - i + 1

\* the length of the match of \d+(?:\.\d+)? at i with the fraction taken
\* (0 when the digits or the fraction are missing)
NumberLenFrac(s, i) ==
    LET n == DigitRun(s, i)
        f == IF MatchAt(s, i + n, <<".">>) THEN DigitRun(s, i + n + 1) ELSE 0
    IN IF n > 0 /\ f > 0 THEN n + 1 + f ELSE 0

\* re.search(r"(\d+(?:\.\d+)?)", s): group 1, None when there is no match
FirstNumber(s) ==
    IF \E i \in DOMAIN s : IsDigit(s[i])
    THEN LET i == CHOOSE i \in DOMAIN s : IsDigit(s[i]) /\ \A j \in 1..(i-1) : ~IsDigit(s[j])
             n == IF NumberLenFrac(s, i) > 0 THEN NumberLenFrac(s, i) ELSE DigitRun(s, i)
         IN SubSeq(s, i, i + n - 1)
    ELSE None

wbpm == <<"b","p","m">>

\* the length of group 1 of (\d+(?:\.\d+)?)(?:\s*)BPM matched at i ignoring
\* case, 0 when it does not match there: the fraction is tried first, then
\* the digits alone
BpmNumberLenAt(s, i) ==
    LET ls == Lower(s)
        n == DigitRun(s, i)
        nf == NumberLenFrac(s, i)
    IN
    IF nf > 0 /\ MatchAt(ls, SkipWS(s, i + nf), wbpm) THEN nf
    ELSE IF n > 0 /\ MatchAt(ls, SkipWS(s, i + n), wbpm) THEN n
    ELSE 0

\* re.search(r"(\d+(?:\.\d+)?)(?:\s*)BPM", s, flags=re.IGNORECASE): group 1,
\* None when there is no match
BpmNumber(s) ==
    LET starts == {i \in DOMAIN s : BpmNumberLenAt(s, i) > 0} IN
    IF starts = {} THEN None
    ELSE LET i == CHOOSE i \in starts : \A j \in starts : i <= j
         IN SubSeq(s, i, i + BpmNumberLenAt(s, i) - 1)

\* a plausible slip: only the first token is discarded
CompName_fromsecond(raw_comp) ==
    LET tokens == SplitWS(raw_comp)
        comp == Strip(Join(Drop(tokens, 1), SP))
    IN
    IF Len(tokens) >= 3
    THEN (IF Len(comp) = 0 THEN raw_comp ELSE comp)
    ELSE raw_comp

\* lines 256-262
CompName(raw_comp) ==
    LET tokens == SplitWS(raw_comp)
        comp == Strip(Join(Drop(tokens, 2), SP))
    IN
    IF Len(tokens) >= 3
    THEN (IF Len(comp) = 0 THEN raw_comp ELSE comp)
    ELSE raw_comp

\* lines 265-272
FolderBpm(parts) ==
    IF Len(parts) >= 3
    THEN LET raw_bpm == Strip(parts[3])
             m == FirstNumber(raw_bpm)
         IN IF m # None THEN m \o wbpm
            ELSE Replace(Replace(raw_bpm, <<"B","P","M">>, wbpm), <<"B","p","m">>, wbpm)
    ELSE None

parse_comp_folder(folder_name) ==
    LET parts == DashSplit(folder_name)
        raw_comp == Strip(parts[1])
    IN [comp |-> CompName(raw_comp),
        key |-> IF Len(parts) >= 2 THEN Strip(parts[2]) ELSE None,
        bpm |-> FolderBpm(parts)]

\* the position of the dot that starts Path(name).suffix, 0 when the
\* suffix is empty
SuffixDot(name) ==
    LET dots == {i \in DOMAIN name : name[i] = "."}
        i == CHOOSE i \in dots : \A j \in dots : j <= i
    IN IF dots # {} /\ i > 1 /\ i < Len(name) THEN i ELSE 0

\* Path(name).suffix and Path(name).stem
PathSuffix(name) == IF SuffixDot(name) = 0 THEN <<>> ELSE Drop(name, SuffixDot(name) - 1)
PathStem(name) == IF SuffixDot(name) = 0 THEN name ELSE Take(name, SuffixDot(name) - 1)

wwav == <<".","w","a","v">>

\* p.suffix.lower() == ".wav"
IsWav(name) == Lower(PathSuffix(name)) = wwav

\* lines 281-289: the raw instrument phrase of a file name
InstrumentRaw(filename) ==
    LET stem == Strip(PathStem(filename))
        parts == DashSplit1(stem)
    IN
    IF Len(parts) = 1 THEN wFull
    ELSE IF Len(Strip(parts[2])) = 0 THEN wFull
    ELSE Strip(parts[2])

guess_instrument_from_filename(filename, comp_name) ==
    normalize_instrument_phrase(CollapseWS(InstrumentRaw(filename)))

\* re.sub(r"(?i)^pelham\s*(?:&|and)\s*junior\s*", "", pack_raw)
StripPelhamJunior(pack_raw) ==
    LET ls == Lower(pack_raw)
        pelham == <<"p","e","l","h","a","m">>
        junior == <<"j","u","n","i","o","r">>
        p1 == SkipWS(ls, Len(pelham) + 1)
        p2 == IF MatchAt(ls, p1, <<"&">>) THEN p1 + 1
              ELSE IF MatchAt(ls, p1, <<"a","n","d">>) THEN p1 + 3
              ELSE 0
        p3 == SkipWS(ls, p2)
        p4 == SkipWS(ls, p3 + Len(junior))
    IN
    IF MatchAt(ls, 1, pelham) /\ p2 > 0 /\ MatchAt(ls, p3, junior)
    THEN Drop(pack_raw, p4 - 1)
    ELSE pack_raw

pack_abbrev_from_parent(name) ==
    LET parts == DashSplit1(name)
        pack_raw == IF Len(parts) > 1 THEN parts[2] ELSE name
    IN Replace(Strip(StripPelhamJunior(pack_raw)), SP, <<>>)

\* ------------------------------------------------------------------------
\* process_folder: helpers
\* ------------------------------------------------------------------------

LABEL == <<"P","&","J">>

wSamples == <<"S","a","m","p","l","e","s">>

Min(a, b) == IF a <= b THEN a ELSE b

\* str < str: the order of the code points, a proper prefix first
RECURSIVE StrLess(_, _)
StrLess(a, b) ==
    IF Len(b) = 0 THEN FALSE
    ELSE IF Len(a) = 0 THEN TRUE
    ELSE IF a[1] = b[1] THEN StrLess(Tail(a), Tail(b))
    ELSE Ord(a[1]) < Ord(b[1])

RECURSIVE Sorted(_)
\* sorted(names): the names of the set S in increasing order
Sorted(S) ==
    IF S = {} THEN <<>>
    ELSE LET least == CHOOSE x \in S : \A y \in S : x = y \/ StrLess(x, y)
         IN <<least>> \o Sorted(S \ {least})

\* the names of the entries of directory dir in the file system (dirs, data)
Entries(dirs, data, dir) ==
    {p[Len(dir) + 1] : p \in {q \in dirs \cup DOMAIN data :
                                Len(q) = Len(dir) + 1 /\ Take(q, Len(dir)) = dir}}

\* lines 339-345: the distinct cores other than Full, in first-encounter order
RECURSIVE SeenCores(_, _, _)
SeenCores(wavs, comp_name, seen_cores) ==
    IF Len(wavs) = 0 THEN seen_cores
    ELSE LET core == guess_instrument_from_filename(Head(wavs), comp_name).core
         IN IF core = wFull \/ (\E i \in DOMAIN seen_cores : seen_cores[i] = core)
            THEN SeenCores(Tail(wavs), comp_name, seen_cores)
            ELSE SeenCores(Tail(wavs), comp_name, Append(seen_cores, core))

\* a plausible slip: the cap on the non-bass cores is forgotten
MultiCores_nocap(seen_cores) ==
    LET bass == SelectSeq(seen_cores, _is_bass_core)
        non_bass == SelectSeq(seen_cores, LAMBDA c : ~_is_bass_core(c))
    IN non_bass \o (IF Len(bass) > 0 THEN <<bass[1]>> ELSE <<>>)

\* lines 348-357: up to 2 non-bass cores, then the first bass core seen
MultiCores(seen_cores) ==
    LET bass == SelectSeq(seen_cores, _is_bass_core)
        non_bass == SelectSeq(seen_cores, LAMBDA c : ~_is_bass_core(c))
    IN Take(non_bass, Min(2, Len(non_bass)))
       \o (IF Len(bass) > 0 THEN <<bass[1]>> ELSE <<>>)

\* a plausible slip: the descriptor is left out of the Full segment
InstrumentParts_nomulti(core, adj, multi_cores) ==
    IF core = wFull THEN <<wMulti>>
    ELSE <<core>> \o (IF Len(adj) > 0 THEN <<adj>> ELSE <<>>)

\* lines 376-383: the instrument segment of the parts list
InstrumentParts(core, adj, multi_cores) ==
    IF core = wFull THEN multi_cores \o <<wMulti>>
    ELSE <<core>> \o (IF Len(adj) > 0 THEN <<adj>> ELSE <<>>)

\* lines 363-366: the tempo of a file
BpmFinal(bpm, wav_name) ==
    IF bpm = None
    THEN LET m == BpmNumber(wav_name) IN IF m # None THEN m \o wbpm ELSE wbpm
    ELSE bpm

\* line 368
KeyFinal(key) ==
    IF key # None /\ Len(key) > 0 THEN normalize_key(key) ELSE <<>>

\* lines 370-371
DescriptorWrapped(comp_name) ==
    <<"[","[">> \o Replace(comp_name, SP, <<>>) \o <<"]","]">>

\* lines 374-389: the parts list of a file
NameParts(pack_abbrev, inst, comp_name, bpm_final, key_final) ==
    <<LABEL, pack_abbrev>> \o inst \o <<DescriptorWrapped(comp_name)>>
    \o (IF Len(bpm_final) > 0 THEN <<bpm_final>> ELSE <<>>)
    \o (IF Len(key_final) > 0 THEN <<key_final>> ELSE <<>>)

\* lines 392-393
NewName(parts) ==
    Join([i \in DOMAIN parts |-> Replace(parts[i], SP, <<"_">>)], <<"_">>) \o wwav

\* lines 313-316
PackAbbrev(parent_name, prefix) ==
    IF prefix # None /\ Len(prefix) > 0 /\ Len(Strip(prefix)) > 0
    THEN Upper(Strip(prefix))
    ELSE pack_abbrev_from_parent(parent_name)

\* ------------------------------------------------------------------------
\* State
\* ------------------------------------------------------------------------

VARIABLES
    keyIn,      \* the argument key_raw of normalize_key
    keyOut,     \* normalize_key(keyIn)
    keyOut2,    \* normalize_key(keyOut)
    keyPc,      \* "idle", "start", "once", "twice"
    nipPhrase,  \* the argument of normalize_instrument_phrase
    nipPc,      \* "idle", "start", "tokenized", "chosen", "returned"
    nipTokens,  \* tokens, line 157
    nipIdx,     \* chosen_idx (1-based), 0 while None
    nipCore0,   \* chosen_core before specialization
    nipAdj0,    \* adj before specialization, line 185
    nipCore,    \* the core returned
    nipAdj,     \* the adjective returned
    pcfIn,      \* folder_name given to parse_comp_folder
    pcfOut,     \* comp, key, bpm it returned
    pcfPc,      \* "idle", "start", "returned"
    fsDirs,     \* the directories below the parent directory, as paths
    fsData,     \* the regular files below the parent directory: path -> content
    fs0,        \* <<fsDirs, fsData>> when process_folder was called
    srcName,    \* the name of the directory selected_path names
    parentName, \* the name of its parent directory
    packPrefix, \* the argument pack_prefix, None when not given
    runNo,      \* 1 in the first call of process_folder, 2 in the repeated one
    firstRun,   \* what the first call was given and left, NoRun before it returned
    runPc,      \* "idle", "start", "folder", "copy", "done", "raised"
    raised,     \* the error process_folder raised: "", "path", "copy"
    packAbbrev, \* pack_abbrev
    subfolders, \* the names of the composition folders, sorted
    fi,         \* the position in subfolders of the folder being processed
    comp,       \* comp_name, key, bpm of that folder
    compWavs,   \* comp_wavs: the names of its .wav files, sorted
    wi,         \* the position in compWavs of the next file of pass 2
    multiCores, \* multi_cores of that folder
    total,      \* total
    done,       \* done
    reports,    \* the calls of on_progress so far
    copies      \* the calls of shutil.copyfile that returned so far

keyVars == <<keyIn, keyOut, keyOut2, keyPc>>
nipVars == <<nipPhrase, nipPc, nipTokens, nipIdx, nipCore0, nipAdj0, nipCore, nipAdj>>
pcfVars == <<pcfIn, pcfOut, pcfPc>>
fsVars == <<fsDirs, fsData>>
argVars == <<fs0, srcName, parentName, packPrefix, runNo, firstRun>>
loopVars == <<packAbbrev, subfolders, fi, comp, compWavs, wi, multiCores, total, done>>
runVars == <<fsVars, argVars, runPc, raised, loopVars, reports, copies>>
vars == <<keyVars, nipVars, pcfVars, runVars>>

KeyIdle ==
    /\ keyIn = <<>>
    /\ keyOut = <<>>
    /\ keyOut2 = <<>>
    /\ keyPc = "idle"

NipIdle ==
    /\ nipPhrase = <<>>
    /\ nipPc = "idle"
    /\ nipTokens = <<>>
    /\ nipIdx = 0
    /\ nipCore0 = <<>>
    /\ nipAdj0 = <<>>
    /\ nipCore = <<>>
    /\ nipAdj = <<>>

NoComp == [comp |-> <<>>, key |-> None, bpm |-> None]

PcfIdle ==
    /\ pcfIn = <<>>
    /\ pcfOut = NoComp
    /\ pcfPc = "idle"

NoRun == [fs0 |-> <<{}, <<>>>>, fs |-> <<{}, <<>>>>, dsts |-> {}]

\* the loop variables before process_folder has set them
LoopReset ==
    /\ packAbbrev = <<>>
    /\ subfolders = <<>>
    /\ fi = 0
    /\ comp = NoComp
    /\ compWavs = <<>>
    /\ wi = 0
    /\ multiCores = <<>>
    /\ total = 0
    /\ done = 0

RunIdle ==
    /\ fsDirs = {}
    /\ fsData = <<>>
    /\ fs0 = <<{}, <<>>>>
    /\ srcName = <<>>
    /\ parentName = <<>>
    /\ packPrefix = None
    /\ runNo = 1
    /\ firstRun = NoRun
    /\ runPc = "idle"
    /\ raised = ""
    /\ LoopReset
    /\ reports = <<>>
    /\ copies = <<>>

\* all sequences over S of length at most n
SeqUpTo(S, n) == UNION {[1..k -> S] : k \in 0..n}

\* ------------------------------------------------------------------------
\* normalize_key applied once and then to its own result
\* ------------------------------------------------------------------------

MaxKeyLen == 3
MaxKeyGap == 1

KEY_ALPHABET == {"A", "b", "B", "#", "m", "H", " "}

\* the in-grammar and near-grammar qualities tried
KEY_QUAL_INPUTS ==
    KEY_QUALS \cup { <<>>, <<"M","i","n">>, <<"M">>, <<"d","i","m">>, <<"m","a","j","7">> }

Spaces(n) == [i \in 1..n |-> " "]

KeyInputs ==
    SeqUpTo(KEY_ALPHABET, MaxKeyLen)
    \cup { <<r>> \o a \o Spaces(n) \o q :
             r \in {"A", "a", "C", "D", "e", "F", "g", "H"},
             a \in {<<>>, <<"#">>, <<"b">>, <<"B">>},
             n \in 0..MaxKeyGap,
             q \in KEY_QUAL_INPUTS }

KeyInit ==
    /\ keyIn \in KeyInputs
    /\ keyOut = <<>>
    /\ keyOut2 = <<>>
    /\ keyPc = "start"
    /\ NipIdle
    /\ PcfIdle
    /\ RunIdle

KeyNormalize ==
    /\ keyPc = "start"
    /\ keyOut' = normalize_key(keyIn)
    /\ keyPc' = "once"
    /\ UNCHANGED <<keyIn, keyOut2, nipVars, pcfVars, runVars>>

KeyRenormalize ==
    /\ keyPc = "once"
    /\ keyOut2' = normalize_key(keyOut)
    /\ keyPc' = "twice"
    /\ UNCHANGED <<keyIn, keyOut, nipVars, pcfVars, runVars>>

KeyNext == KeyNormalize \/ KeyRenormalize

SpecKey == KeyInit /\ [][KeyNext]_vars

\* ------------------------------------------------------------------------
\* normalize_instrument_phrase, step by step
\* ------------------------------------------------------------------------

MaxTokens == 3

PHRASE_WORDS ==
    { wBass, <<"g","u","i","t","a","r">>, wLead, <<"P","A","D">>, wFull,
      <<"s","y","n","t","h">>, <<"u","p","r","i","g","h","t">>, wElectric,
      <<"n","y","l","o","n">>, wRhodes, wPiano }

\* the spellings of the Electric_Piano family that the words above do not
\* give, EP, ep, E. Piano, e piano: alone, after a word, in front of a word
EPPhraseInputs ==
    LET spellings == { wEP, Lower(wEP), Sp(<<"E",".">>, wPiano),
                       Sp(<<"e">>, Lower(wPiano)) }
    IN spellings
       \cup { Sp(w, k) : w \in PHRASE_WORDS, k \in spellings }
       \cup { Sp(k, w) : w \in PHRASE_WORDS, k \in spellings }

\* the words joined by one space and, for the short phrases, also by a
\* run of spaces with a space in front; the Electric_Piano spellings
PhraseInputs ==
    { Join(ws, SP) : ws \in SeqUpTo(PHRASE_WORDS, MaxTokens) }
    \cup { SP \o Join(ws, SP \o SP) : ws \in SeqUpTo(PHRASE_WORDS, MaxTokens - 1) }
    \cup EPPhraseInputs

NipInit ==
    /\ nipPhrase \in PhraseInputs
    /\ nipPc = "start"
    /\ nipTokens = <<>>
    /\ nipIdx = 0
    /\ nipCore0 = <<>>
    /\ nipAdj0 = <<>>
    /\ nipCore = <<>>
    /\ nipAdj = <<>>
    /\ KeyIdle
    /\ PcfIdle
    /\ RunIdle

\* lines 148-161: the Electric_Piano rule, no token, one token
NipScan ==
    /\ nipPc = "start"
    /\ LET s == CollapseWS(nipPhrase)
           m == EPSearch(s)
           tokens == SplitWS(s)
       IN
       IF m > 0
       THEN /\ nipCore' = wElectric_Piano
            /\ nipAdj' = Title(Strip(Take(s, m - 1)))
            /\ nipPc' = "returned"
            /\ UNCHANGED nipTokens
       ELSE IF Len(tokens) = 0
       THEN /\ nipCore' = wFull
            /\ nipAdj' = <<>>
            /\ nipPc' = "returned"
            /\ nipTokens' = tokens
       ELSE IF Len(tokens) = 1
       THEN /\ nipCore' = canon_core(tokens[1])
            /\ nipAdj' = <<>>
            /\ nipPc' = "returned"
            /\ nipTokens' = tokens
       ELSE /\ nipTokens' = tokens
            /\ nipPc' = "tokenized"
            /\ UNCHANGED <<nipCore, nipAdj>>
    /\ UNCHANGED <<nipPhrase, nipIdx, nipCore0, nipAdj0, keyVars, pcfVars, runVars>>

\* lines 163-185 and 189-193: the priority choice, or the fallback
NipChoose ==
    /\ nipPc = "tokenized"
    /\ LET chosen_idx == ChosenIdx(nipTokens)
       IN
       IF chosen_idx > 0
       THEN /\ nipIdx' = chosen_idx
            /\ nipCore0' = canon_core(nipTokens[chosen_idx])
            /\ nipAdj0' = AdjOf(nipTokens, chosen_idx)
            /\ nipPc' = "chosen"
            /\ UNCHANGED <<nipCore, nipAdj>>
       ELSE /\ nipCore' = canon_core(CollapseWS(nipPhrase))
            /\ nipAdj' = <<>>
            /\ nipPc' = "returned"
            /\ UNCHANGED <<nipIdx, nipCore0, nipAdj0>>
    /\ UNCHANGED <<nipPhrase, nipTokens, keyVars, pcfVars, runVars>>

\* lines 186-187
NipSpecialize ==
    /\ nipPc = "chosen"
    /\ LET r == _specialize_bass_guitar_core(nipCore0, nipAdj0)
       IN /\ nipCore' = r.core
          /\ nipAdj' = r.adj
    /\ nipPc' = "returned"
    /\ UNCHANGED <<nipPhrase, nipTokens, nipIdx, nipCore0, nipAdj0, keyVars, pcfVars, runVars>>

NipNext == NipScan \/ NipChoose \/ NipSpecialize

SpecPhrase == NipInit /\ [][NipNext]_vars

\* the steps compute what the function returns
NipStepsAgree ==
    nipPc = "returned" =>
        normalize_instrument_phrase(nipPhrase) = [core |-> nipCore, adj |-> nipAdj]

\* ------------------------------------------------------------------------
\* parse_comp_folder applied to a folder name
\* ------------------------------------------------------------------------

MaxCompTokens == 4

COMP_WORDS == { <<"P","J">>, <<"N","i","g","h","t">> }

\* what follows the composition segment: nothing, a key, a key and a
\* tempo, with the dash separators, the key segments and the tempo segments
\* tried
FolderTails ==
    LET seps == { <<" ","-"," ">>, <<"-">> }
        keys == { <<"A","b","m">>, <<>>, <<"C","#"," ">> }
        bpms == { <<"9","2","B","P","M">>, <<>>, <<"T","e","m","p","o"," ","B","p","m">>,
                  <<"1","2","0",".","5">> }
    IN { <<>> }
       \cup { s \o k : s \in seps, k \in keys }
       \cup { s \o k \o s \o b : s \in seps, k \in keys, b \in bpms }

\* a composition segment, the words joined by one space and, for the short
\* ones, by two spaces with a space in front, and what follows it
FolderInputs ==
    LET heads == { Join(ws, SP) : ws \in SeqUpTo(COMP_WORDS, MaxCompTokens) }
                 \cup { SP \o Join(ws, SP \o SP) :
                           ws \in SeqUpTo(COMP_WORDS, MaxCompTokens - 1) }
    IN { h \o t : h \in heads, t \in FolderTails }

PcfInit ==
    /\ pcfIn \in FolderInputs
    /\ pcfOut = NoComp
    /\ pcfPc = "start"
    /\ KeyIdle
    /\ NipIdle
    /\ RunIdle

ParseFolder ==
    /\ pcfPc = "start"
    /\ pcfOut' = parse_comp_folder(pcfIn)
    /\ pcfPc' = "returned"
    /\ UNCHANGED <<pcfIn, keyVars, nipVars, runVars>>

SpecParse == PcfInit /\ [][ParseFolder]_vars

\* ------------------------------------------------------------------------
\* process_folder: one batch run over a source tree
\* ------------------------------------------------------------------------

MaxFiles == 4

wLoops == <<"L","o","o","p","s">>

F_Sunset ==
    <<"S","u","n","s","e","t"," ","G","r","o","o","v","e"," ","-"," ",
      "A","b","m"," ","-"," ","9","2","B","P","M">>
F_Night == <<"P","J"," ","V","o","l","1"," ","N","i","g","h","t"," ","D","r","i","v","e">>
F_Jam == <<"J","a","m"," ","-"," ","C","b"," ","-">>
F_Demo ==
    <<"D","e","m","o"," ","-"," ","H"," ","-"," ","T","e","m","p","o"," ","B","p","m">>

\* composition folder names: key and tempo, neither, a key and an empty
\* tempo segment, a key outside the grammar and a tempo without a number
FOLDER_NAMES == {F_Sunset, F_Night, F_Jam, F_Demo}

N_SynthBass ==
    <<"a"," ","-"," ","S","y","n","t","h"," ","B","a","s","s",".","w","a","v">>
N_Guitar == <<"b"," ","-"," ","G","u","i","t","a","r",".","w","a","v">>
N_Pad == <<"c"," ","-"," ","P","A","D",".","W","A","V">>
N_Bass == <<"d"," ","-"," ","B","a","s","s",".","w","a","v">>
N_Full == <<"e",".","w","a","v">>
N_Lead ==
    <<"f"," ","-"," ","L","e","a","d"," ","9","0","b","p","m",".","w","a","v">>
N_Lead2 ==
    <<"g"," ","-"," ","l","e","a","d"," ","9","0","B","P","M",".","w","a","v">>
N_Rhodes ==
    <<"S","u","n","s","e","t"," ","G","r","o","o","v","e"," ","-"," ",
      "R","h","o","d","e","s",".","w","a","v">>
N_Dash == <<"h"," ","-",".","w","a","v">>
N_Notes == <<"n","o","t","e","s",".","t","x","t">>

\* the file names a composition folder may hold
FILE_NAMES == {N_SynthBass, N_Guitar, N_Pad, N_Bass, N_Full, N_Lead, N_Lead2, N_Notes}

\* the file names of the trees with two composition folders
FEW_FILES == {N_Bass, N_Full, N_Lead}

P_Demo == <<"P","J"," ","-"," ","D","e","m","o"," ","P","a","c","k">>
P_Keys ==
    <<"P","e","l","h","a","m"," ","&"," ","J","u","n","i","o","r"," ","K","e","y","s">>

PARENT_NAMES == {P_Demo, P_Keys, <<"P","e","l","h","a","m"," ","a","n","d"," ","J","u","n","i","o","r">>}

PACK_PREFIXES == {None, <<>>, <<" ">>, <<"d","e","m","o">>, <<" ","d","e"," ","m","o">>}

\* a source tree: [folders |-> the composition folders,
\*                 files |-> the <<folder, file>> pairs]
OneFolderTrees ==
    { [folders |-> {f}, files |-> {<<f, n>> : n \in S}] :
        f \in FOLDER_NAMES,
        S \in {T \in SUBSET FILE_NAMES : Cardinality(T) <= MaxFiles} }

TwoFolderTrees ==
    UNION { { [folders |-> P, files |-> S] :
                S \in {T \in SUBSET (P \X FEW_FILES) : Cardinality(T) <= MaxFiles} } :
            P \in {Q \in SUBSET FOLDER_NAMES : Cardinality(Q) = 2} }

Trees == {[folders |-> {}, files |-> {}]} \cup OneFolderTrees \cup TwoFolderTrees

\* the trees with which the parent name and the pack prefix are varied
PackTrees ==
    { [folders |-> {F_Sunset}, files |-> {<<F_Sunset, n>> : n \in S}] :
        S \in {{N_Rhodes}, {N_Full, N_Bass}, {N_Dash, N_Guitar},
                 {N_Lead, N_Lead2, N_Dash}} }

\* the trees of a source directory named Samples
SamplesTrees ==
    { [folders |-> {f}, files |-> {<<f, n>> : n \in S}] :
        f \in {F_Jam, F_Night}, S \in {{N_Bass}, {N_Full}, {N_Bass, N_Full}} }

TreeDirs(src, tree) == {<<src>>} \cup {<<src, f>> : f \in tree.folders}

\* the content of a source file is named after its path
TreeData(src, tree) ==
    [p \in {<<src, x[1], x[2]>> : x \in tree.files} |-> p]

RunStart ==
    /\ fs0 = <<fsDirs, fsData>>
    /\ runNo = 1
    /\ firstRun = NoRun
    /\ runPc = "start"
    /\ raised = ""
    /\ LoopReset
    /\ reports = <<>>
    /\ copies = <<>>
    /\ KeyIdle
    /\ NipIdle
    /\ PcfIdle

\* a source directory with a tree of composition folders
InitTree ==
    /\ srcName = wLoops
    /\ parentName = P_Demo
    /\ packPrefix = None
    /\ \E tree \in Trees :
          /\ fsDirs = TreeDirs(srcName, tree)
          /\ fsData = TreeData(srcName, tree)
    /\ RunStart

\* the parent directory's name and the pack prefix varied
InitPack ==
    /\ srcName = wLoops
    /\ parentName \in PARENT_NAMES
    /\ packPrefix \in PACK_PREFIXES
    /\ \E tree \in PackTrees :
          /\ fsDirs = TreeDirs(srcName, tree)
          /\ fsData = TreeData(srcName, tree)
    /\ RunStart

\* the selected path is missing or names a regular file, next to a
\* Samples directory of an earlier run or to none
InitBadPath ==
    /\ srcName = wLoops
    /\ parentName = P_Demo
    /\ packPrefix \in {None, <<"d","e","m","o">>}
    /\ \E old \in {{}, {<<wSamples>>, <<wSamples, F_Jam>>}}, isFile \in BOOLEAN :
          /\ fsDirs = old
          /\ fsData = IF isFile THEN [p \in {<<srcName>>} |-> p] ELSE <<>>
    /\ RunStart

\* the selected directory is itself named Samples
InitSamples ==
    /\ srcName = wSamples
    /\ parentName = P_Demo
    /\ packPrefix = None
    /\ \E tree \in SamplesTrees :
          /\ fsDirs = TreeDirs(srcName, tree)
          /\ fsData = TreeData(srcName, tree)
    /\ RunStart

RunInit == InitTree \/ InitPack \/ InitBadPath \/ InitSamples

\* a plausible slip: the destination root is made before the path is looked at
StartFail_mkdirfirst ==
    /\ runPc = "start"
    /\ <<srcName>> \notin fsDirs
    /\ fsDirs' = fsDirs \cup {<<wSamples>>}
    /\ runPc' = "raised"
    /\ raised' = "path"
    /\ UNCHANGED <<fsData, argVars, loopVars, reports, copies, keyVars, nipVars, pcfVars>>

\* lines 308-310: the path is missing or no directory
StartFail ==
    /\ runPc = "start"
    /\ <<srcName>> \notin fsDirs
    /\ runPc' = "raised"
    /\ raised' = "path"
    /\ UNCHANGED <<fsVars, argVars, loopVars, reports, copies, keyVars, nipVars, pcfVars>>

\* lines 308-329: the pack abbreviation, the destination root, the listing
\* of the composition folders, the count and the first progress report
\* (the phase labels stand without the ellipsis character that ends them)
Start ==
    /\ runPc = "start"
    /\ <<srcName>> \in fsDirs
    /\ packAbbrev' = PackAbbrev(parentName, packPrefix)
    /\ fsDirs' = fsDirs \cup {<<wSamples>>}
    /\ LET source_dir == <<srcName>>
           subs == {n \in Entries(fsDirs', fsData, source_dir) :
                       Append(source_dir, n) \in fsDirs'}
           wavs == {<<f, n>> \in UNION {{f} \X Entries(fsDirs', fsData, <<srcName, f>>) : f \in subs} :
                       IsWav(n)}
       IN /\ subfolders' = Sorted(subs)
          /\ total' = IF wavs # {} THEN Cardinality(wavs) ELSE 1
    /\ done' = 0
    /\ reports' = <<[phase |-> "Preparing", done |-> done', total |-> total']>>
    /\ fi' = 1
    /\ runPc' = "folder"
    /\ UNCHANGED <<fsData, argVars, raised, comp, compWavs, wi, multiCores, copies,
                   keyVars, nipVars, pcfVars>>

\* lines 331-357: the next composition folder is parsed, its destination
\* folder made, its .wav files listed and pass 1 run over them
EnterFolder ==
    /\ runPc = "folder"
    /\ fi <= Len(subfolders)
    /\ LET name == subfolders[fi]
           wavs == Sorted({n \in Entries(fsDirs', fsData, <<srcName, name>>) : IsWav(n)})
       IN /\ comp' = parse_comp_folder(name)
          /\ fsDirs' = fsDirs \cup {<<wSamples>>, <<wSamples, name>>}
          /\ compWavs' = wavs
          /\ multiCores' = MultiCores(SeenCores(wavs, comp'.comp, <<>>))
          /\ IF Len(wavs) > 0
             THEN wi' = 1 /\ runPc' = "copy" /\ fi' = fi
             ELSE wi' = 0 /\ runPc' = "folder" /\ fi' = fi + 1
    /\ UNCHANGED <<fsData, argVars, raised, packAbbrev, subfolders, total, done,
                   reports, copies, keyVars, nipVars, pcfVars>>

\* the source of the next copy of pass 2
CopySrc == <<srcName, subfolders[fi], compWavs[wi]>>

\* lines 361 and 374-383: the instrument segment of the next file
CopyInst ==
    LET r == guess_instrument_from_filename(compWavs[wi], comp.comp)
    IN InstrumentParts(r.core, r.adj, multiCores)

\* lines 363-393: the new name of the next file, given its instrument segment
CopyName(inst) ==
    NewName(NameParts(packAbbrev, inst, comp.comp,
                      BpmFinal(comp.bpm, compWavs[wi]), KeyFinal(comp.key)))

\* line 395: the destination of the next copy
CopyDst(new_name) == <<wSamples, subfolders[fi], new_name>>

\* shutil.copyfile(src, dst) raises: the two are the same file, one of them
\* is a directory
CopyRefused(src, dst) == src = dst \/ src \in fsDirs \/ dst \in fsDirs

\* lines 360-399: one file of pass 2 is named, copied and reported
CopyFile ==
    /\ runPc = "copy"
    /\ wi <= Len(compWavs)
    /\ \E inst \in {CopyInst} : \E new_name \in {CopyName(inst)} :
       \E src \in {CopySrc}, dst \in {CopyDst(new_name)} :
          /\ ~CopyRefused(src, dst)
          /\ fsData' = [p \in DOMAIN fsData \cup {dst} |->
                           IF p = dst THEN fsData[src] ELSE fsData[p]]
          /\ copies' = Append(copies, [folder |-> subfolders[fi], file |-> compWavs[wi],
                                       inst |-> inst, name |-> new_name,
                                       src |-> src, dst |-> dst])
    /\ done' = done + 1
    /\ reports' = Append(reports, [phase |-> "Renaming", done |-> done', total |-> total])
    /\ IF wi < Len(compWavs)
       THEN wi' = wi + 1 /\ runPc' = "copy" /\ fi' = fi
       ELSE wi' = 0 /\ runPc' = "folder" /\ fi' = fi + 1
    /\ UNCHANGED <<fsDirs, argVars, raised, packAbbrev, subfolders, comp, compWavs,
                   multiCores, total, keyVars, nipVars, pcfVars>>

\* line 395: shutil.copyfile raises: refused, or failed by the file system
\* before the destination was opened or after some of the bytes were written
CopyFail ==
    /\ runPc = "copy"
    /\ wi <= Len(compWavs)
    /\ \E inst \in {CopyInst} : \E new_name \in {CopyName(inst)} :
       \E src \in {CopySrc}, dst \in {CopyDst(new_name)} :
          \/ UNCHANGED fsData
          \/ /\ ~CopyRefused(src, dst)
             /\ \E n \in 0..(Len(fsData[src]) - 1) :
                   fsData' = [p \in DOMAIN fsData \cup {dst} |->
                                 IF p = dst THEN Take(fsData[src], n) ELSE fsData[p]]
    /\ runPc' = "raised"
    /\ raised' = "copy"
    /\ UNCHANGED <<fsDirs, argVars, loopVars, reports, copies, keyVars, nipVars, pcfVars>>

\* the loop of line 331 ends: process_folder returns
Finish ==
    /\ runPc = "folder"
    /\ fi > Len(subfolders)
    /\ runPc' = "done"
    /\ UNCHANGED <<fsVars, argVars, raised, loopVars, reports, copies, keyVars, nipVars, pcfVars>>

\* process_folder is called again with the same arguments once the first
\* call has returned
Rerun ==
    /\ runPc = "done"
    /\ runNo = 1
    /\ firstRun' = [fs0 |-> fs0, fs |-> <<fsDirs, fsData>>,
                    dsts |-> {copies[k].dst : k \in DOMAIN copies}]
    /\ runNo' = 2
    /\ fs0' = <<fsDirs, fsData>>
    /\ runPc' = "start"
    /\ packAbbrev' = <<>>
    /\ subfolders' = <<>>
    /\ fi' = 0
    /\ comp' = NoComp
    /\ compWavs' = <<>>
    /\ wi' = 0
    /\ multiCores' = <<>>
    /\ total' = 0
    /\ done' = 0
    /\ reports' = <<>>
    /\ copies' = <<>>
    /\ UNCHANGED <<fsVars, srcName, parentName, packPrefix, raised, keyVars, nipVars, pcfVars>>

RunNext == StartFail \/ Start \/ EnterFolder \/ CopyFile \/ CopyFail \/ Finish \/ Rerun

Spec == RunInit /\ [][RunNext]_vars

\* ------------------------------------------------------------------------
\* Properties of normalize_key
\* ------------------------------------------------------------------------

\* C1: normalize_key is idempotent: normalizing the result of normalize_key
\* again returns it unchanged, for keys inside and outside the key grammar.
C1_NormalizeKeyIdempotent ==
    keyPc = "twice" => keyOut2 = keyOut

\* C1 witness: a key that normalization changed has been normalized twice.
C1_Witness ==
    /\ keyPc = "twice"
    /\ keyIn = <<"A","b","m">>
    /\ keyOut = <<"G","#","m","i","n">>
    /\ keyOut2 = keyOut

\* the root and accidental the key grammar's table gives for a root letter
\* (upper-cased) and an accidental
C8_ExpectedRoot(r, a) ==
    IF a = <<>> THEN <<r>>
    ELSE IF a = <<"#">> THEN <<r, "#">>
    ELSE CASE r = "A" -> <<"G","#">>
           [] r = "B" -> <<"A","#">>
           [] r = "D" -> <<"C","#">>
           [] r = "E" -> <<"D","#">>
           [] r = "G" -> <<"F","#">>
           [] OTHER -> <<r>>

C8_ExpectedQuality(q) ==
    IF q \in { <<"m">>, <<"m","i","n">>, <<"M","I","N">> }
    THEN <<"m","i","n">>
    ELSE <<"m","a","j">>

\* C8: every input <root><accidental?><spaces><quality?> of the key grammar
\* is normalized to <Root>[#]<maj|min>: m/min give min, maj or no quality
\* gives maj, a sharp is kept, Ab Bb Db Eb Gb become G# A# C# D# F#, and any
\* other flat drops to the natural letter.
C8_NormalizeKeyGrammar ==
    keyPc \in {"once", "twice"} =>
        \A r \in KEY_ROOTS, a \in {<<>>, <<"#">>, <<"b">>, <<"B">>},
           n \in 0..(MaxKeyGap + 1), q \in KEY_QUALS \cup {<<>>} :
            (keyIn = <<r>> \o a \o (IF q = <<>> THEN <<>> ELSE Spaces(n) \o q))
            => keyOut = C8_ExpectedRoot(UpperChar(r), a) \o C8_ExpectedQuality(q)

\* C8 witness: the flat minor key Abm has been normalized to G#min.
C8_Witness ==
    /\ keyPc = "once"
    /\ keyIn = <<"A","b","m">>
    /\ keyOut = <<"G","#","m","i","n">>

\* ------------------------------------------------------------------------
\* Properties of normalize_instrument_phrase
\* ------------------------------------------------------------------------

\* the whitespace-separated tokens of the phrase classified
PhraseTokens == SplitWS(nipPhrase)

\* the positions of the tokens whose canonical form is in CORE_SET
PhraseCores == {i \in DOMAIN PhraseTokens : canon_core(PhraseTokens[i]) \in CORE_SET}

\* position w wins: no core has a lower priority number, and no core of the
\* same priority stands to its right
Wins(w) ==
    /\ w \in PhraseCores
    /\ \A j \in PhraseCores :
          LET pw == CORE_PRIORITY(canon_core(PhraseTokens[w]))
              pj == CORE_PRIORITY(canon_core(PhraseTokens[j]))
          IN pw < pj \/ (pw = pj /\ j <= w)

\* the winner and the adjective the priority rule asks for have been chosen
PriorityRuleApplied ==
    /\ Wins(nipIdx)
    /\ nipCore0 = canon_core(PhraseTokens[nipIdx])
    /\ nipAdj0 = Title(Join(SelectSeq([i \in DOMAIN PhraseTokens |->
                                          IF i = nipIdx THEN <<>> ELSE PhraseTokens[i]],
                                      LAMBDA t : t # <<>>), SP))

\* C2 as stated: for every multi-token phrase with at least one core token the
\* winner is the core of lowest priority number, rightmost among equals, and
\* the adjective before specialization is the title-cased join of the others.
C2_Original ==
    (nipPc = "returned" /\ Len(PhraseTokens) >= 2 /\ PhraseCores # {})
        => PriorityRuleApplied

\* C2 amended: the same for the multi-token phrases with a core token in
\* which the Electric_Piano pattern of line 151 finds no match.
C2_PriorityRule ==
    (nipPc = "returned" /\ Len(PhraseTokens) >= 2 /\ PhraseCores # {}
       /\ EPSearch(CollapseWS(nipPhrase)) = 0)
        => PriorityRuleApplied

\* C2 witness: a core of higher priority has won over a core to its right.
C2_Witness ==
    /\ nipPc = "returned"
    /\ nipIdx > 0
    /\ \E j \in PhraseCores : j > nipIdx
    /\ nipCore0 = wBass

\* some word of the adjective before specialization is w, ignoring case
AdjHas(w) ==
    \E i \in DOMAIN SplitWS(nipAdj0) : Lower(SplitWS(nipAdj0)[i]) = Lower(w)

\* the adjective before specialization without the words of ks, in order
AdjWithout(ks) ==
    Join(SelectSeq(SplitWS(nipAdj0),
                   LAMBDA x : \A k \in ks : Lower(x) # Lower(k)), SP)

\* C3: a winning Bass becomes Synth Bass, else Upright Bass, else Electric
\* Bass by the adjective words synth, upright, electric/guitar; a winning
\* Guitar becomes Acoustic Guitar, else Electric Guitar by acoustic/nylon,
\* electric; the keywords of the branch taken leave the adjective, every
\* other word stays in order; any other core and its adjective are unchanged.
C3_Specialization ==
    (nipPc = "returned" /\ nipIdx > 0) =>
        IF nipCore0 = wBass THEN
            IF AdjHas(wSynth)
            THEN nipCore = Sp(wSynth, wBass) /\ nipAdj = AdjWithout({wSynth})
            ELSE IF AdjHas(wUpright)
            THEN nipCore = Sp(wUpright, wBass) /\ nipAdj = AdjWithout({wUpright})
            ELSE IF AdjHas(wElectric) \/ AdjHas(wGuitar)
            THEN nipCore = Sp(wElectric, wBass) /\ nipAdj = AdjWithout({wElectric, wGuitar})
            ELSE nipCore = wBass /\ nipAdj = nipAdj0
        ELSE IF nipCore0 = wGuitar THEN
            IF AdjHas(wAcoustic) \/ AdjHas(wNylon)
            THEN nipCore = Sp(wAcoustic, wGuitar) /\ nipAdj = AdjWithout({wAcoustic, wNylon})
            ELSE IF AdjHas(wElectric)
            THEN nipCore = Sp(wElectric, wGuitar) /\ nipAdj = AdjWithout({wElectric})
            ELSE nipCore = wGuitar /\ nipAdj = nipAdj0
        ELSE nipCore = nipCore0 /\ nipAdj = nipAdj0

\* C3 witness: "upright Bass" has become Upright Bass with no adjective left.
C3_Witness ==
    /\ nipPc = "returned"
    /\ nipCore0 = wBass
    /\ nipAdj0 = wUpright
    /\ nipCore = Sp(wUpright, wBass)
    /\ nipAdj = <<>>

\* C9: the core returned is never empty, and it is Full only when no
\* instrument is detected: a phrase with a token that canonicalizes to a
\* CORE_SET instrument other than Full is not classified Full.
C9_FullOnlyWithoutInstrument ==
    nipPc = "returned" =>
        /\ nipCore # <<>>
        /\ (\E i \in PhraseCores : canon_core(PhraseTokens[i]) # wFull) => nipCore # wFull

\* ------------------------------------------------------------------------
\* Properties of process_folder
\* ------------------------------------------------------------------------

\* the .wav files of a composition folder of the source tree as it was when
\* process_folder was called, in sorted order
FolderWavs(folder) ==
    Sorted({n \in Entries(fs0[1], fs0[2], <<srcName, folder>>) : IsWav(n)})

\* the core given to each file of a list of file names
CoresOf(wavs) ==
    [i \in DOMAIN wavs |-> guess_instrument_from_filename(wavs[i], <<>>).core]

C4_BassFamily ==
    {wBass, Sp(wElectric, wBass), Sp(wSynth, wBass), Sp(wUpright, wBass)}

\* the positions at which a core other than Full is seen for the first time
FirstSeen(cores) ==
    {i \in DOMAIN cores : cores[i] # wFull /\ \A j \in 1..(i - 1) : cores[j] # cores[i]}

\* the descriptor the rule asks for: the cores at the first two first-seen
\* positions outside the bass family, then the core at the first first-seen
\* position inside it
ExpectedDescriptor(wavs) ==
    LET cores == CoresOf(wavs)
        nb == {i \in FirstSeen(cores) : cores[i] \notin C4_BassFamily}
        bs == {i \in FirstSeen(cores) : cores[i] \in C4_BassFamily}
        kept == {i \in nb : Cardinality({j \in nb : j < i}) < 2}
        first(S) == CHOOSE i \in S : \A j \in S : i <= j
    IN (IF kept = {} THEN <<>>
        ELSE IF Cardinality(kept) = 1 THEN <<cores[first(kept)]>>
        ELSE <<cores[first(kept)], cores[first(kept \ {first(kept)})]>>)
       \o (IF bs = {} THEN <<>> ELSE <<cores[first(bs)]>>)

\* C4: for every composition folder the multi-track descriptor has at most 3
\* cores: the first two cores outside the bass family among the distinct
\* cores other than Full of the folder's files, in sorted-filename
\* first-encounter order, then the bass-family core if one was seen, always
\* last; cores seen as Guitar, Pad, Bass, Lead give [Guitar, Pad, Bass].
C4_MultiTrackDescriptor ==
    /\ Len(multiCores) <= 3
    /\ multiCores = ExpectedDescriptor(compWavs)
    /\ runPc = "copy" =>
          /\ compWavs = FolderWavs(subfolders[fi])
          /\ CoresOf(compWavs) = <<wGuitar, wPad, wBass, wLead>>
                => multiCores = <<wGuitar, wPad, wBass>>

\* C4 witness: a folder whose files give Guitar, Pad, Bass, Lead in this
\* order has the descriptor [Guitar, Pad, Bass].
C4_Witness ==
    /\ runPc = "copy"
    /\ compWavs = <<N_Guitar, N_Pad, N_Bass, N_Lead>>
    /\ multiCores = <<wGuitar, wPad, wBass>>

\* the stem of the file name has no dash, or only spaces after its first dash
C5_NoPhrase(filename) ==
    LET stem == PathStem(filename)
    IN \A i \in DOMAIN stem :
          stem[i] = "-" => (\A j \in 1..(i - 1) : stem[j] # "-")
                           /\ (\A j \in (i + 1)..Len(stem) : stem[j] = " ")

\* C5: in pass 2 a file whose stem has no dash, or nothing after the first
\* dash, has core Full; the instrument segment of every Full file is the
\* folder's descriptor, computed over all .wav files of the folder, followed
\* by Multi; the segment of any other file is its core, followed by its
\* adjective only when that is non-empty.
C5_InstrumentSegment ==
    \A k \in DOMAIN copies :
        LET c == copies[k]
            r == guess_instrument_from_filename(c.file, <<>>)
        IN /\ C5_NoPhrase(c.file) => r.core = wFull
           /\ r.core = wFull =>
                 c.inst = ExpectedDescriptor(FolderWavs(c.folder)) \o <<wMulti>>
           /\ r.core # wFull =>
                 c.inst = IF r.adj = <<>> THEN <<r.core>> ELSE <<r.core, r.adj>>

\* C5 witness: the file e.wav has been copied with the segment Lead Multi,
\* Lead being the core of a file sorted after it; a file with nothing after
\* its dash has been copied with a descriptor before Multi; a file with an
\* adjective has been copied.
C5_Witness ==
    \/ \E k \in DOMAIN copies :
          /\ copies[k].file = N_Full
          /\ copies[k].inst = <<wLead, wMulti>>
          /\ \E j \in DOMAIN copies : j > k /\ copies[j].file = N_Lead
    \/ \E k \in DOMAIN copies :
          /\ copies[k].file = N_Dash
          /\ copies[k].inst = <<wGuitar, wMulti>>

\* C6: process_folder called on a path that is missing or no directory
\* raises before the destination root or a destination folder is made,
\* before a file is copied and before the progress sink is called: the file
\* system is as it was.
C6_PathErrorFirst ==
    /\ (runPc \in {"folder", "copy", "done", "raised"} /\ <<srcName>> \notin fs0[1])
          => raised = "path"
    /\ raised = "path" =>
          /\ <<fsDirs, fsData>> = fs0
          /\ reports = <<>>
          /\ copies = <<>>

\* C6 witness: the error has been raised where no Samples directory was.
C6_Witness ==
    /\ runPc = "raised"
    /\ raised = "path"
    /\ <<srcName>> \notin fs0[1]
    /\ <<wSamples>> \notin fs0[1]

\* every space of every part replaced by an underscore, the parts joined by
\* underscores, .wav appended
C7_Assemble(parts) ==
    Join([i \in DOMAIN parts |->
             [j \in DOMAIN parts[i] |-> IF parts[i][j] = " " THEN "_" ELSE parts[i][j]]],
         <<"_">>) \o wwav

\* the composition name without its spaces
C7_NoSpaces(s) == SelectSeq(s, LAMBDA ch : ch # " ")

\* C7: the name of every output file is the underscore-join of P&J, the pack
\* abbreviation, the instrument segments, [[composition name without
\* spaces]], the tempo token, and the normalized key only when the folder
\* has a key, every space replaced by an underscore and .wav appended; the
\* folder "Sunset Groove - Abm - 92BPM" with the file "Sunset Groove -
\* Rhodes.wav" and the override DEMO gives
\* P&J_DEMO_Electric_Piano_[[SunsetGroove]]_92bpm_G#min.wav.
C7_FilenameAssembly ==
    \A k \in DOMAIN copies :
        LET c == copies[k]
            f == parse_comp_folder(c.folder)
            tempo == BpmFinal(f.bpm, c.file)
            has_key == f.key # None /\ f.key # <<>>
        IN /\ tempo # <<>>
           /\ c.name = C7_Assemble(<<LABEL, packAbbrev>> \o c.inst
                                   \o << <<"[","[">> \o C7_NoSpaces(f.comp) \o <<"]","]">> >>
                                   \o <<tempo>>
                                   \o (IF has_key THEN <<normalize_key(f.key)>> ELSE <<>>))
           /\ \A i \in DOMAIN c.name : c.name[i] # " "
           /\ (c.folder = F_Sunset /\ c.file = N_Rhodes /\ packAbbrev = <<"D","E","M","O">>)
                => c.name = <<"P","&","J","_","D","E","M","O","_",
                              "E","l","e","c","t","r","i","c","_","P","i","a","n","o","_",
                              "[","[","S","u","n","s","e","t","G","r","o","o","v","e","]","]","_",
                              "9","2","b","p","m","_","G","#","m","i","n",".","w","a","v">>

\* C10: within one run no two distinct source files are copied to the same
\* destination path, and after the run the destination tree holds one output
\* file for every source file.
C10_UniqueDestination ==
    /\ \A i, j \in DOMAIN copies :
          copies[i].src # copies[j].src => copies[i].dst # copies[j].dst
    /\ runPc = "done" =>
          Cardinality({p \in DOMAIN fsData : p[1] = wSamples} \ DOMAIN fs0[2])
              = Cardinality({p \in DOMAIN fs0[2] : Len(p) = 3 /\ p[1] = srcName /\ IsWav(p[3])})

\* the files and directories of a file system at and below the path root
TreeAt(fs, root) ==
    <<{d \in fs[1] : Len(d) >= Len(root) /\ Take(d, Len(root)) = root},
      [q \in {r \in DOMAIN fs[2] : Len(r) >= Len(root) /\ Take(r, Len(root)) = root}
          |-> fs[2][q]]>>

\* C11: a second call of process_folder on the same source path with the
\* same arguments, whatever the source directory is named, leaves the source
\* tree as it was before the first call, copies to the same set of
\* destination paths as the first call, and leaves the destination tree as
\* the first call left it.
C11_RerunSameTree ==
    (runNo = 2 /\ runPc = "done") =>
        /\ TreeAt(<<fsDirs, fsData>>, <<srcName>>) = TreeAt(firstRun.fs0, <<srcName>>)
        /\ {copies[k].dst : k \in DOMAIN copies} = firstRun.dsts
        /\ TreeAt(<<fsDirs, fsData>>, <<wSamples>>) = TreeAt(firstRun.fs, <<wSamples>>)

\* the tempo token the resolution rule gives a file: the folder's tempo when
\* the folder name has two dashes or more, else the number in front of BPM
\* in the file name with bpm appended, else bpm
C12_Tempo(folder, file) ==
    IF Cardinality({i \in DOMAIN folder : folder[i] = "-"}) >= 2
    THEN parse_comp_folder(folder).bpm
    ELSE IF BpmNumber(file) # None THEN BpmNumber(file) \o wbpm
    ELSE wbpm

\* C12: every output name holds a tempo token, after the bracketed
\* composition name: the folder's tempo when the folder name has a third
\* dash segment, else <value>bpm from the first number followed by BPM in
\* the file name, else bpm; no name is without a tempo token.
C12_TempoAlwaysPresent ==
    \A k \in DOMAIN copies :
        LET c == copies[k]
            tempo == Replace(C12_Tempo(c.folder, c.file), SP, <<"_">>)
        IN /\ tempo # <<>>
           /\ \E i \in DOMAIN c.name :
                 /\ MatchAt(c.name, i, <<"]","]","_">> \o tempo)
                 /\ c.name[i + 3 + Len(tempo)] \in {"_", "."}

\* the number of .wav files in the composition folders of the source tree
\* as it was when process_folder was called
SourceWavCount ==
    Cardinality({p \in DOMAIN fs0[2] :
                    Len(p) = 3 /\ p[1] = srcName /\ <<p[1], p[2]>> \in fs0[1] /\ IsWav(p[3])})

\* C13: in a run that succeeds the sink is called once with Preparing, done 0
\* and total the number of .wav files, before any copy, then once after
\* each copy with Renaming and done one higher; the total is the same in
\* every report, done never exceeds it, and the last report has done equal
\* to total.
C13_ProgressReports ==
    runPc \in {"folder", "copy", "done"} =>
        /\ Len(reports) = 1 + Len(copies)
        /\ reports[1] = [phase |-> "Preparing", done |-> 0, total |-> SourceWavCount]
        /\ \A i \in 2..Len(reports) :
              /\ reports[i].phase = "Renaming"
              /\ reports[i].done = i - 1
              /\ reports[i].total = reports[1].total
              /\ reports[i].done <= reports[i].total
        /\ runPc = "done" => reports[Len(reports)].done = reports[Len(reports)].total

\* ------------------------------------------------------------------------
\* The Electric_Piano rule of normalize_instrument_phrase
\* ------------------------------------------------------------------------

\* an Electric_Piano keyword starts at token i of the phrase: rhodes, ep,
\* e. piano, e piano, electric piano, ignoring case
C14_KeywordAt(i) ==
    LET t == Lower(PhraseTokens[i])
        u == IF i < Len(PhraseTokens) THEN Lower(PhraseTokens[i + 1]) ELSE <<>>
    IN \/ t \in {Lower(wRhodes), Lower(wEP)}
       \/ t \in {<<"e",".">>, <<"e">>, Lower(wElectric)} /\ u = Lower(wPiano)

\* C14: a phrase with an Electric_Piano keyword (rhodes, e. piano, e piano,
\* the token ep, electric piano, ignoring case) is given the core
\* Electric_Piano and, as adjective, the title-cased text in front of the
\* first keyword, also when a Bass or Guitar token stands in the phrase.
C14_ElectricPianoFirst ==
    (nipPc = "returned" /\ \E i \in DOMAIN PhraseTokens : C14_KeywordAt(i)) =>
        LET first == CHOOSE i \in DOMAIN PhraseTokens :
                        C14_KeywordAt(i) /\ \A j \in 1..(i - 1) : ~C14_KeywordAt(j)
        IN /\ nipCore = wElectric_Piano
           /\ nipAdj = Title(Join([j \in 1..(first - 1) |-> PhraseTokens[j]], SP))

\* ------------------------------------------------------------------------
\* A copy that fails
\* ------------------------------------------------------------------------

\* the position of a folder name in subfolders, 0 when it is not there
FolderIndex(folder) ==
    IF \E i \in DOMAIN subfolders : subfolders[i] = folder
    THEN CHOOSE i \in DOMAIN subfolders : subfolders[i] = folder
    ELSE 0

\* C15: when the copy of a file fails, process_folder raises and the batch
\* stops: only files in front of the failing one, in its folder or in an
\* earlier folder, have been copied, the last progress report is that of the
\* last copy made, and every file copied earlier is in the destination.
C15_CopyFailureAborts ==
    raised = "copy" =>
        /\ runPc = "raised"
        /\ Len(copies) = done
        /\ Len(reports) = 1 + Len(copies)
        /\ \A k \in DOMAIN copies :
              \/ FolderIndex(copies[k].folder) < fi
              \/ /\ copies[k].folder = subfolders[fi]
                 /\ \E j \in 1..(wi - 1) : compWavs[j] = copies[k].file
        /\ \A k \in DOMAIN copies :
              /\ copies[k].dst \in DOMAIN fsData
              /\ fsData[copies[k].dst] = fsData[copies[k].src]

\* ------------------------------------------------------------------------
\* Properties of parse_comp_folder
\* ------------------------------------------------------------------------

\* the characters of s in front of its first dash, all of s without a dash
C16_BeforeDash(s) ==
    SelectSeq([i \in DOMAIN s |-> IF \E j \in 1..i : s[j] = "-" THEN "-" ELSE s[i]],
              LAMBDA ch : ch # "-")

\* the characters of s behind its first dash
C16_AfterDash(s) ==
    [i \in 1..(Len(s) - Len(C16_BeforeDash(s)) - 1) |-> s[Len(C16_BeforeDash(s)) + 1 + i]]

\* C16: parse_comp_folder returns for every folder name; with 3 or more
\* tokens in the segment in front of the first dash the composition name is
\* the tokens from the third on joined by a space, with fewer it is that
\* segment trimmed; the key is the trimmed second segment, absent when the
\* name has no dash.
C16_ParseCompFolder ==
    pcfPc = "returned" =>
        LET seg == Strip(C16_BeforeDash(pcfIn))
            toks == SplitWS(seg)
            has_dash == \E i \in DOMAIN pcfIn : pcfIn[i] = "-"
        IN /\ pcfOut.comp = IF Len(toks) >= 3
                            THEN Join([i \in 1..(Len(toks) - 2) |-> toks[i + 2]], SP)
                            ELSE seg
           /\ pcfOut.key = IF has_dash
                           THEN Strip(C16_BeforeDash(C16_AfterDash(pcfIn)))
                           ELSE None

\* C16 witness: a name of four tokens, a key and a tempo has been parsed
\* into the last two tokens and the key.
C16_Witness ==
    /\ pcfPc = "returned"
    /\ Len(SplitWS(C16_BeforeDash(pcfIn))) = 4
    /\ pcfOut.comp = Sp(<<"N","i","g","h","t">>, <<"P","J">>)
    /\ pcfOut.key = <<"A","b","m">>
    /\ pcfOut.bpm = <<"9","2","b","p","m">>

====
